---- MODULE Spec2Model ----
(***************************************************************************)
(* Entity subscription routing and result aggregation                      *)
(* (sentry/snuba/entity_subscription.py).                                  *)
(*                                                                         *)
(* Texts on which the code performs string operations (the aggregate, the  *)
(* query, event type names) are sequences of one-character strings, so     *)
(* that regular-expression matching, substring search, lower-casing and    *)
(* concatenation are computed character by character.  Names that are only *)
(* compared (datasets, entity keys, column names, metric names) are        *)
(* strings.  An Optional value is the empty sequence (None) or a           *)
(* one-element sequence.  A number is a rational [num, den] with den > 0.  *)
(***************************************************************************)
EXTENDS Integers, Sequences, FiniteSets, TLC

VARIABLES
    sub,        \* the subscription object held by the caller, None before create
    data,       \* the caller's row batch (a mutable list of mappings)
    alias,      \* the alias the caller passes with that batch
    params,     \* the caller's params mapping passed to build_query_builder
    op,         \* the last operation called
    ret,        \* what the last operation returned, None if it raised
    exc,        \* the exception the last operation raised, "" if it returned
    emitted,    \* the metrics.incr calls of the last operation, in order
    lookups,    \* the tag resolver calls of the last operation, in order
    before,     \* the arguments and the subscription as they were when the last operation was called
    calls       \* how many times aggregate_query_results was called on the current batch

vars == <<sub, data, alias, params, op, ret, exc, emitted, lookups, before, calls>>

----------------------------------------------------------------------------
(* Bounds of the model *)

\* Longest row batch the backend returns.
MaxRows == 2

\* How many times the caller passes the same batch to aggregate_query_results.
MaxCalls == 2

----------------------------------------------------------------------------
(* Optional values and small helpers *)

None == <<>>

Some(v) == <<v>>

IsNone(o) == Len(o) = 0

Min(S) == CHOOSE m \in S : \A n \in S : m <= n

Abs(n) == IF n < 0 THEN -n ELSE n

RECURSIVE GCD(_, _)
GCD(a, b) == IF b = 0 THEN a ELSE GCD(b, a % b)

\* The rational n / d (d > 0) in lowest terms.
Num(n, d) ==
    LET g == GCD(Abs(n), d)
    IN  [num |-> n \div g, den |-> d \div g]

----------------------------------------------------------------------------
(* Character sequences of the literals the code uses *)

str_percentage_open ==
    <<"p", "e", "r", "c", "e", "n", "t", "a", "g", "e", "(">>

str_sessions_crashed ==
    <<"s", "e", "s", "s", "i", "o", "n", "s", "_", "c", "r", "a", "s", "h", "e", "d">>

str_users_crashed ==
    <<"u", "s", "e", "r", "s", "_", "c", "r", "a", "s", "h", "e", "d">>

str_sessions ==
    <<"s", "e", "s", "s", "i", "o", "n", "s">>

str_users ==
    <<"u", "s", "e", "r", "s">>

str_comma ==
    <<",">>

str_close ==
    <<")">>

str_open ==
    <<"(">>

str_space ==
    <<" ">>

str_count_call ==
    <<"c", "o", "u", "n", "t", "(", ")">>

str_as_x ==
    <<" ", "A", "S", " ", "x">>

str_identity_open ==
    <<"i", "d", "e", "n", "t", "i", "t", "y", "(">>

str_as ==
    <<")", " ", "A", "S", " ">>

str_event_type_prefix ==
    <<"e", "v", "e", "n", "t", ".", "t", "y", "p", "e", ":">>

str_or ==
    <<" ", "O", "R", " ">>

str_and ==
    <<")", " ", "A", "N", "D", " ", "(">>

str_release ==
    <<"r", "e", "l", "e", "a", "s", "e", ":", "1", ".", "0">>

str_ERROR ==
    <<"E", "R", "R", "O", "R">>

str_DEFAULT ==
    <<"D", "E", "F", "A", "U", "L", "T">>

str_TRANSACTION ==
    <<"T", "R", "A", "N", "S", "A", "C", "T", "I", "O", "N">>

UpperCase ==
    <<"A", "B", "C", "D", "E", "F", "G", "H", "I", "J", "K", "L", "M", "N", "O", "P", "Q", "R", "S", "T", "U", "V", "W", "X", "Y", "Z">>

LowerCase ==
    <<"a", "b", "c", "d", "e", "f", "g", "h", "i", "j", "k", "l", "m", "n", "o", "p", "q", "r", "s", "t", "u", "v", "w", "x", "y", "z">>
----------------------------------------------------------------------------
(* Module constants *)

EVENTS == "events"

TRANSACTIONS == "transactions"

SESSIONS == "sessions"

METRICS == "metrics"

DISCOVER == "discover"

QueryDatasets == {EVENTS, TRANSACTIONS, SESSIONS, METRICS}

EntityKey == {"Events", "Transactions", "Sessions", "MetricsCounters", "MetricsSets"}

\* As ENTITY_TIME_COLUMNS, but with timestamp for every entity.
ENTITY_TIME_COLUMNS_all_timestamp ==
    [k \in EntityKey |-> "timestamp"]

DATASET_CONDITIONS ==
    [d \in {EVENTS, TRANSACTIONS} |->
        IF d = EVENTS THEN str_event_type_prefix \o <<"e", "r", "r", "o", "r">>
        ELSE str_event_type_prefix \o
             <<"t", "r", "a", "n", "s", "a", "c", "t", "i", "o", "n">>]

ENTITY_TIME_COLUMNS ==
    [k \in EntityKey |->
        CASE k = "Events" -> "timestamp"
          [] k = "Sessions" -> "started"
          [] k = "Transactions" -> "finish_ts"
          [] k = "MetricsCounters" -> "timestamp"
          [] k = "MetricsSets" -> "timestamp"]

ALERT_BLOCKED_FIELDS ==
    {"start", "end", "last_seen()", "time", "timestamp", "timestamp.to_hour",
     "timestamp.to_day"}

CRASH_RATE_ALERT_AGGREGATE_ALIAS == "crash_rate_alert_aggregate_value"

CRASH_RATE_ALERT_SESSION_COUNT_ALIAS ==
    <<"_", "t", "o", "t", "a", "l", "_", "c", "o", "u", "n", "t">>

SessionMRI == [SESSION |-> "c:sessions/session@none", USER |-> "s:sessions/user@none"]

----------------------------------------------------------------------------
(* Regular expressions *)

\* Whether the literal lit occurs in s at position i.
StartsWithAt(s, i, lit) ==
    /\ i + Len(lit) - 1 <= Len(s)
    /\ SubSeq(s, i, i + Len(lit) - 1) = lit

\* [ ]* at position i: the position after the longest run of spaces.
RECURSIVE SkipSpaces(_, _)
SkipSpaces(s, i) ==
    IF i <= Len(s) /\ s[i] = " " THEN SkipSpaces(s, i + 1) ELSE i

\* (a|b|...) at position i: the first alternative that occurs there.
FirstAlt(s, i, alts) ==
    LET hits == {k \in 1..Len(alts) : StartsWithAt(s, i, alts[k])}
    IN  IF hits = {} THEN None ELSE Some(alts[Min(hits)])

\* As CRASH_RATE_ALERT_AGGREGATE_RE, but without the closing \) of the pattern.
CRASH_RATE_ALERT_AGGREGATE_RE_unclosed(s) ==
    IF ~StartsWithAt(s, 1, str_percentage_open) THEN None
    ELSE
    LET p1 == SkipSpaces(s, 1 + Len(str_percentage_open))
        g1 == FirstAlt(s, p1, <<str_sessions_crashed, str_users_crashed>>)
    IN  IF IsNone(g1) THEN None
        ELSE
        LET p2 == SkipSpaces(s, p1 + Len(g1[1]))
        IN  IF ~StartsWithAt(s, p2, str_comma) THEN None
            ELSE
            LET p3 == SkipSpaces(s, p2 + Len(str_comma))
                g2 == FirstAlt(s, p3, <<str_sessions, str_users>>)
            IN  IF IsNone(g2) THEN None ELSE Some(<<g1[1], g2[1]>>)

\* re.match(CRASH_RATE_ALERT_AGGREGATE_RE, s): None, or Some(<<group 1, group 2>>).
\* ^percentage\([ ]*(sessions_crashed|users_crashed)[ ]*\,[ ]*(sessions|users)[ ]*\)
CRASH_RATE_ALERT_AGGREGATE_RE(s) ==
    IF ~StartsWithAt(s, 1, str_percentage_open) THEN None
    ELSE
    LET p1 == SkipSpaces(s, 1 + Len(str_percentage_open))
        g1 == FirstAlt(s, p1, <<str_sessions_crashed, str_users_crashed>>)
    IN  IF IsNone(g1) THEN None
        ELSE
        LET p2 == SkipSpaces(s, p1 + Len(g1[1]))
        IN  IF ~StartsWithAt(s, p2, str_comma) THEN None
            ELSE
            LET p3 == SkipSpaces(s, p2 + Len(str_comma))
                g2 == FirstAlt(s, p3, <<str_sessions, str_users>>)
            IN  IF IsNone(g2) THEN None
                ELSE
                LET p4 == SkipSpaces(s, p3 + Len(g2[1]))
                IN  IF StartsWithAt(s, p4, str_close)
                    THEN Some(<<g1[1], g2[1]>>)
                    ELSE None

\* re.search(r"(sessions|users)", s): the leftmost occurrence, None if there is none.
RECURSIVE SearchCountCol(_, _)
SearchCountCol(s, i) ==
    IF i > Len(s) THEN None
    ELSE LET m == FirstAlt(s, i, <<str_sessions, str_users>>)
         IN  IF IsNone(m) THEN SearchCountCol(s, i + 1) ELSE m

----------------------------------------------------------------------------
(* Entity classifier *)

\* A call either returns (exc = "") or raises the exception named by exc.
Returns(v) == [exc |-> "", val |-> v]

Raises(e) == [exc |-> e, val |-> ""]

\* As map_aggregate_to_entity_key, but accepting any aggregate for the sessions
\* dataset.
map_aggregate_to_entity_key_sessions_unmatched(dataset, aggregate) ==
    IF dataset = EVENTS THEN Returns("Events")
    ELSE IF dataset = TRANSACTIONS THEN Returns("Transactions")
    ELSE IF dataset = SESSIONS THEN Returns("Sessions")
    ELSE IF dataset = METRICS THEN
        LET match == CRASH_RATE_ALERT_AGGREGATE_RE(aggregate)
        IN  IF IsNone(match) THEN Raises("UnsupportedQuerySubscription")
            ELSE LET count_col_matched == match[1][2]
                 IN  IF count_col_matched = str_sessions
                     THEN Returns("MetricsCounters")
                     ELSE Returns("MetricsSets")
    ELSE Raises("UnsupportedQuerySubscription")

\* As map_aggregate_to_entity_key, but matching the aggregate for every dataset.
map_aggregate_to_entity_key_match_first(dataset, aggregate) ==
    LET match == CRASH_RATE_ALERT_AGGREGATE_RE(aggregate)
    IN  IF dataset \notin {EVENTS, TRANSACTIONS, METRICS, SESSIONS}
        THEN Raises("UnsupportedQuerySubscription")
        ELSE IF IsNone(match) THEN Raises("UnsupportedQuerySubscription")
        ELSE IF dataset = EVENTS THEN Returns("Events")
        ELSE IF dataset = TRANSACTIONS THEN Returns("Transactions")
        ELSE IF dataset = METRICS THEN
            LET count_col_matched == match[1][2]
            IN  IF count_col_matched = str_sessions
                THEN Returns("MetricsCounters")
                ELSE Returns("MetricsSets")
        ELSE Returns("Sessions")

\* As map_aggregate_to_entity_key, but routing a metrics aggregate by group 1.
map_aggregate_to_entity_key_group1(dataset, aggregate) ==
    IF dataset = EVENTS THEN Returns("Events")
    ELSE IF dataset = TRANSACTIONS THEN Returns("Transactions")
    ELSE IF dataset \in {METRICS, SESSIONS} THEN
        LET match == CRASH_RATE_ALERT_AGGREGATE_RE(aggregate)
        IN  IF IsNone(match) THEN Raises("UnsupportedQuerySubscription")
            ELSE IF dataset = METRICS THEN
                LET count_col_matched == match[1][1]
                IN  IF count_col_matched = str_sessions_crashed
                    THEN Returns("MetricsCounters")
                    ELSE Returns("MetricsSets")
            ELSE Returns("Sessions")
    ELSE Raises("UnsupportedQuerySubscription")

map_aggregate_to_entity_key(dataset, aggregate) ==
    IF dataset = EVENTS THEN Returns("Events")
    ELSE IF dataset = TRANSACTIONS THEN Returns("Transactions")
    ELSE IF dataset \in {METRICS, SESSIONS} THEN
        LET match == CRASH_RATE_ALERT_AGGREGATE_RE(aggregate)
        IN  IF IsNone(match) THEN Raises("UnsupportedQuerySubscription")
            ELSE IF dataset = METRICS THEN
                LET count_col_matched == match[1][2]
                IN  IF count_col_matched = str_sessions
                    THEN Returns("MetricsCounters")
                    ELSE Returns("MetricsSets")
            ELSE Returns("Sessions")
    ELSE Raises("UnsupportedQuerySubscription")

----------------------------------------------------------------------------
(* Tag resolver (sentry.sentry_metrics.utils): string <-> integer index *)

IndexedStrings ==
    {"init", "crashed", "errored", "prod", "c:sessions/session@none",
     "s:sessions/user@none", "session.status", "environment"}

INDEXER ==
    [s \in IndexedStrings |->
        CASE s = "init" -> 1
          [] s = "crashed" -> 2
          [] s = "errored" -> 3
          [] s = "prod" -> 4
          [] s = "c:sessions/session@none" -> 5
          [] s = "s:sessions/user@none" -> 6
          [] s = "session.status" -> 7
          [] s = "environment" -> 8]

resolve(org_id, string) == INDEXER[string]

\* The column that holds the tag whose key has the resolved index.
resolve_tag_key(org_id, string) ==
    IF INDEXER[string] = INDEXER["session.status"] THEN "tags[7]" ELSE "tags[8]"

resolve_tag_value(org_id, string) == INDEXER[string]

resolve_tag_values(org_id, strings) ==
    [i \in DOMAIN strings |-> INDEXER[strings[i]]]

\* None when the index is unknown to the indexer.
reverse_resolve_tag_value(index) ==
    IF \E s \in IndexedStrings : INDEXER[s] = index
    THEN Some(CHOOSE s \in IndexedStrings : INDEXER[s] = index)
    ELSE None

\* One entry of the log of resolver calls: the function called, the strings
\* it was asked to resolve and the index it was asked to reverse (0 if none).
Lookup(fn, strings, index) == [fn |-> fn, strings |-> strings, index |-> index]

----------------------------------------------------------------------------
(* Constructors *)

\* The outcome of a call: the exception raised ("" if none), the value
\* returned (None if it raised), the counters incremented and the resolver
\* calls made, both in order.
Outcome(e, v, m, l) == [exc |-> e, val |-> v, emitted |-> m, lookups |-> l]

\* Python truth value of an Optional mapping: None and {} are false.
Truthy(extra_fields) ==
    ~IsNone(extra_fields) /\ DOMAIN extra_fields[1] # {}

BaseEventsAndTransactionEntitySubscription(entity_key, dataset, aggregate, time_window, extra_fields) ==
    Outcome("",
            Some([entity_key |-> entity_key,
                  dataset |-> dataset,
                  time_col |-> ENTITY_TIME_COLUMNS[entity_key],
                  aggregate |-> aggregate,
                  event_types |->
                      IF Truthy(extra_fields)
                         /\ "event_types" \in DOMAIN extra_fields[1]
                      THEN Some(extra_fields[1]["event_types"])
                      ELSE None]),
            <<>>, <<>>)

\* As SessionsEntitySubscription, but reading org_id with a default instead of
\* requiring it.
SessionsEntitySubscription_optional_org(aggregate, time_window, extra_fields) ==
    Outcome("",
            Some([entity_key |-> "Sessions",
                  dataset |-> SESSIONS,
                  time_col |-> ENTITY_TIME_COLUMNS["Sessions"],
                  aggregate |-> aggregate,
                  org_id |-> IF Truthy(extra_fields)
                                /\ "org_id" \in DOMAIN extra_fields[1]
                             THEN extra_fields[1]["org_id"]
                             ELSE 0]),
            <<>>, <<>>)

SessionsEntitySubscription(aggregate, time_window, extra_fields) ==
    IF ~Truthy(extra_fields) \/ "org_id" \notin DOMAIN extra_fields[1]
    THEN Outcome("InvalidQuerySubscription", None, <<>>, <<>>)
    ELSE Outcome("",
                 Some([entity_key |-> "Sessions",
                       dataset |-> SESSIONS,
                       time_col |-> ENTITY_TIME_COLUMNS["Sessions"],
                       aggregate |-> aggregate,
                       org_id |-> extra_fields[1]["org_id"]]),
                 <<>>, <<>>)

BaseMetricsEntitySubscription(entity_key, metric_key, aggregate, time_window, extra_fields) ==
    IF ~Truthy(extra_fields) \/ "org_id" \notin DOMAIN extra_fields[1]
    THEN Outcome("InvalidQuerySubscription", None, <<>>, <<>>)
    ELSE Outcome("",
                 Some([entity_key |-> entity_key,
                       metric_key |-> metric_key,
                       dataset |-> METRICS,
                       time_col |-> ENTITY_TIME_COLUMNS[entity_key],
                       aggregate |-> aggregate,
                       org_id |-> extra_fields[1]["org_id"],
                       session_status |->
                           resolve_tag_key(extra_fields[1]["org_id"],
                                           "session.status"),
                       time_window |-> time_window]),
                 <<>>,
                 <<Lookup("resolve_tag_key", <<"session.status">>, 0)>>)

ENTITY_KEY_TO_ENTITY_SUBSCRIPTION(entity_key, aggregate, time_window, extra_fields) ==
    CASE entity_key = "Events" ->
            BaseEventsAndTransactionEntitySubscription(
                "Events", EVENTS, aggregate, time_window, extra_fields)
      [] entity_key = "MetricsCounters" ->
            BaseMetricsEntitySubscription(
                "MetricsCounters", SessionMRI.SESSION, aggregate, time_window,
                extra_fields)
      [] entity_key = "MetricsSets" ->
            BaseMetricsEntitySubscription(
                "MetricsSets", SessionMRI.USER, aggregate, time_window,
                extra_fields)
      [] entity_key = "Sessions" ->
            SessionsEntitySubscription(aggregate, time_window, extra_fields)
      [] entity_key = "Transactions" ->
            BaseEventsAndTransactionEntitySubscription(
                "Transactions", TRANSACTIONS, aggregate, time_window,
                extra_fields)

\* As get_entity_subscription_for_dataset, but looking at the organization id
\* of a sessions or metrics create before the aggregate.
get_entity_subscription_for_dataset_org_first(dataset, aggregate, time_window, extra_fields) ==
    LET key == map_aggregate_to_entity_key(dataset, aggregate)
    IN  IF dataset \in {SESSIONS, METRICS}
           /\ (~Truthy(extra_fields) \/ "org_id" \notin DOMAIN extra_fields[1])
        THEN Outcome("InvalidQuerySubscription", None, <<>>, <<>>)
        ELSE IF key.exc # ""
        THEN Outcome(key.exc, None, <<>>, <<>>)
        ELSE ENTITY_KEY_TO_ENTITY_SUBSCRIPTION(key.val, aggregate, time_window,
                                               extra_fields)

get_entity_subscription_for_dataset(dataset, aggregate, time_window, extra_fields) ==
    LET key == map_aggregate_to_entity_key(dataset, aggregate)
    IN  IF key.exc # ""
        THEN Outcome(key.exc, None, <<>>, <<>>)
        ELSE ENTITY_KEY_TO_ENTITY_SUBSCRIPTION(key.val, aggregate, time_window,
                                               extra_fields)

----------------------------------------------------------------------------
(* Arithmetic on rationals *)

\* The integer nearest to p / q (q > 0), ties to the even one.
RoundHalfEven(p, q) ==
    LET f == p \div q
        r == p % q
    IN  IF 2 * r < q THEN f
        ELSE IF 2 * r > q THEN f + 1
        ELSE IF f % 2 = 0 THEN f ELSE f + 1

\* As round3, but rounding to two decimals.
round3_two_places(x) == Num(RoundHalfEven(100 * x.num, x.den), 100)

\* round(x, 3): a multiple of 1/1000.
round3(x) == Num(RoundHalfEven(1000 * x.num, x.den), 1000)

\* c / t for t # 0.
Quotient(c, t) ==
    IF t.num > 0 THEN Num(c.num * t.den, c.den * t.num)
    ELSE Num(-(c.num * t.den), -(c.den * t.num))

\* (1 - x) * 100
OneMinusTimes100(x) == Num(100 * (x.den - x.num), x.den)

IsZero(cell) == ~IsNone(cell) /\ cell[1].num = 0

----------------------------------------------------------------------------
(* aggregate_query_results *)

NO_SESSION_DATA_SESSIONS ==
    "incidents.entity_subscription.sessions.aggregate_query_results.no_session_data"

NO_SESSION_DATA_METRICS ==
    "incidents.entity_subscription.metrics.aggregate_query_results.no_session_data"

METRIC_INDEX_NOT_FOUND == "incidents.entity_subscription.metric_index_not_found"

AGGREGATE_QUERY_RESULTS == "incidents.entity_subscription.aggregate_query_results"

\* One metrics.incr call; format is "" when the call passes no tags.
Incr(name, format) == [name |-> name, format |-> format]

\* Outcome of aggregate_query_results: data is the caller's batch after the call.
AggOutcome(e, v, m, l, d) ==
    [exc |-> e, val |-> v, emitted |-> m, lookups |-> l, data |-> d]

\* Python truth value of an Optional string.
HasAlias(a) == ~IsNone(a) /\ a[1] # ""

\* As EventsAndTransactionAggregateQueryResults, but returning one row at most.
EventsAndTransactionAggregateQueryResults_one_row(self, d, a) ==
    AggOutcome("", Some(SubSeq(d, 1, Min({1, Len(d)}))), <<>>, <<>>, d)

EventsAndTransactionAggregateQueryResults(self, d, a) ==
    AggOutcome("", Some(d), <<>>, <<>>, d)

\* As SessionsAggregateQueryResults, but reading the default column whatever
\* the alias is.
SessionsAggregateQueryResults_default_column(self, d, a) ==
    IF Len(d) # 1 THEN AggOutcome("AssertionError", None, <<>>, <<>>, d)
    ELSE
    LET col_name == CRASH_RATE_ALERT_AGGREGATE_ALIAS
    IN  IF col_name \notin DOMAIN d[1]
        THEN AggOutcome("KeyError", None, <<>>, <<>>, d)
        ELSE IF ~IsNone(d[1][col_name])
        THEN LET d2 == [d EXCEPT ![1][col_name] =
                           Some(round3(OneMinusTimes100(d[1][col_name][1])))]
             IN  AggOutcome("", Some(d2), <<>>, <<>>, d2)
        ELSE AggOutcome("", Some(d), <<Incr(NO_SESSION_DATA_SESSIONS, "")>>, <<>>, d)

SessionsAggregateQueryResults(self, d, a) ==
    IF Len(d) # 1 THEN AggOutcome("AssertionError", None, <<>>, <<>>, d)
    ELSE
    LET col_name == IF HasAlias(a) THEN a[1] ELSE CRASH_RATE_ALERT_AGGREGATE_ALIAS
    IN  IF col_name \notin DOMAIN d[1]
        THEN AggOutcome("KeyError", None, <<>>, <<>>, d)
        ELSE IF ~IsNone(d[1][col_name])
        THEN LET d2 == [d EXCEPT ![1][col_name] =
                           Some(round3(OneMinusTimes100(d[1][col_name][1])))]
             IN  AggOutcome("", Some(d2), <<>>, <<>>, d2)
        ELSE AggOutcome("", Some(d), <<Incr(NO_SESSION_DATA_SESSIONS, "")>>, <<>>, d)

\* As TranslateRows, but skipping a row whose tag value does not resolve.
RECURSIVE TranslateRows_skip(_, _, _, _, _)
TranslateRows_skip(d, i, session_status, value_col_name, acc) ==
    IF i > Len(d) \/ acc.exc # "" THEN acc
    ELSE
    LET row == d[i]
    IN  IF session_status \notin DOMAIN row
        THEN [acc EXCEPT !.exc = "KeyError"]
        ELSE
        LET tag_value ==
                IF IsNone(row[session_status]) THEN None
                ELSE reverse_resolve_tag_value(row[session_status][1].num)
            looked == Append(acc.lookups,
                             Lookup("reverse_resolve_tag_value", <<>>,
                                    IF IsNone(row[session_status]) THEN 0
                                    ELSE row[session_status][1].num))
        IN  IF IsNone(tag_value)
            THEN TranslateRows_skip(d, i + 1, session_status, value_col_name,
                    [acc EXCEPT !.lookups = looked])
            ELSE IF value_col_name \notin DOMAIN row
            THEN [acc EXCEPT !.exc = "KeyError", !.lookups = looked]
            ELSE TranslateRows_skip(d, i + 1, session_status, value_col_name,
                    [acc EXCEPT
                        !.translated_data =
                            (tag_value[1] :> row[value_col_name]) @@ @,
                        !.lookups = looked])

\* The loop of translate_sessions_tag_keys_and_values from row i on; acc holds
\* the exception raised so far, translated_data and the resolver calls.
RECURSIVE TranslateRows(_, _, _, _, _)
TranslateRows(d, i, session_status, value_col_name, acc) ==
    IF i > Len(d) \/ acc.exc # "" THEN acc
    ELSE
    LET row == d[i]
    IN  IF session_status \notin DOMAIN row
        THEN [acc EXCEPT !.exc = "KeyError"]
        ELSE
        LET tag_value ==
                IF IsNone(row[session_status]) THEN None
                ELSE reverse_resolve_tag_value(row[session_status][1].num)
            looked == Append(acc.lookups,
                             Lookup("reverse_resolve_tag_value", <<>>,
                                    IF IsNone(row[session_status]) THEN 0
                                    ELSE row[session_status][1].num))
        IN  IF IsNone(tag_value)
            THEN [acc EXCEPT !.exc = "MetricIndexNotFound", !.lookups = looked]
            ELSE IF value_col_name \notin DOMAIN row
            THEN [acc EXCEPT !.exc = "KeyError", !.lookups = looked]
            ELSE TranslateRows(d, i + 1, session_status, value_col_name,
                    [acc EXCEPT
                        !.translated_data =
                            (tag_value[1] :> row[value_col_name]) @@ @,
                        !.lookups = looked])

\* As translate_sessions_tag_keys_and_values, but without the except clause.
translate_sessions_tag_keys_and_values_uncaught(d, org_id, a) ==
    LET value_col_name == IF HasAlias(a) THEN a[1] ELSE "value"
        session_status == resolve_tag_key(org_id, "session.status")
        loop == TranslateRows(d, 1, session_status, value_col_name,
                    [exc |-> "",
                     translated_data |-> <<>>,
                     lookups |-> <<Lookup("resolve_tag_key", <<"session.status">>, 0)>>])
        get(label) ==
            IF label \in DOMAIN loop.translated_data
            THEN loop.translated_data[label]
            ELSE Some(Num(0, 1))
    IN  [exc |-> loop.exc, total_session_count |-> get("init"),
         crash_count |-> get("crashed"), emitted |-> <<>>,
         lookups |-> loop.lookups]

translate_sessions_tag_keys_and_values(d, org_id, a) ==
    LET value_col_name == IF HasAlias(a) THEN a[1] ELSE "value"
        session_status == resolve_tag_key(org_id, "session.status")
        loop == TranslateRows(d, 1, session_status, value_col_name,
                    [exc |-> "",
                     translated_data |-> <<>>,
                     lookups |-> <<Lookup("resolve_tag_key", <<"session.status">>, 0)>>])
        get(label) ==
            IF label \in DOMAIN loop.translated_data
            THEN loop.translated_data[label]
            ELSE Some(Num(0, 1))
    IN  IF loop.exc = "MetricIndexNotFound"
        THEN [exc |-> "", total_session_count |-> Some(Num(0, 1)),
              crash_count |-> Some(Num(0, 1)),
              emitted |-> <<Incr(METRIC_INDEX_NOT_FOUND, "")>>,
              lookups |-> loop.lookups]
        ELSE [exc |-> loop.exc, total_session_count |-> get("init"),
              crash_count |-> get("crashed"), emitted |-> <<>>,
              lookups |-> loop.lookups]

is_crash_rate_format_v2(d) == Len(d) > 0 /\ "crashed" \in DOMAIN d[1]

\* round((1 - crash_count / total_count) * 100, 3)
crash_free_rate(crash_count, total_count) ==
    round3(OneMinusTimes100(Quotient(crash_count, total_count)))

\* As aggregate_query_results_v1, but returning no row when there is no data.
aggregate_query_results_v1_no_row(self, d, a) ==
    LET t == translate_sessions_tag_keys_and_values(d, self.org_id, a)
        total_session_count == t.total_session_count
        crash_count == t.crash_count
        col_name == IF HasAlias(a) THEN a[1] ELSE CRASH_RATE_ALERT_AGGREGATE_ALIAS
    IN  IF t.exc # "" THEN AggOutcome(t.exc, None, t.emitted, t.lookups, d)
        ELSE IF IsZero(total_session_count)
        THEN AggOutcome("", Some(<<>>),
                        Append(t.emitted, Incr(NO_SESSION_DATA_METRICS, "")),
                        t.lookups, d)
        ELSE IF IsNone(total_session_count) \/ IsNone(crash_count)
        THEN AggOutcome("TypeError", None, t.emitted, t.lookups, d)
        ELSE AggOutcome("",
                 Some(<<(col_name :>
                     Some(crash_free_rate(crash_count[1], total_session_count[1])))>>),
                 t.emitted, t.lookups, d)

aggregate_query_results_v1(self, d, a) ==
    LET t == translate_sessions_tag_keys_and_values(d, self.org_id, a)
        total_session_count == t.total_session_count
        crash_count == t.crash_count
        col_name == IF HasAlias(a) THEN a[1] ELSE CRASH_RATE_ALERT_AGGREGATE_ALIAS
    IN  IF t.exc # "" THEN AggOutcome(t.exc, None, t.emitted, t.lookups, d)
        ELSE IF IsZero(total_session_count)
        THEN AggOutcome("", Some(<<(col_name :> None)>>),
                        Append(t.emitted, Incr(NO_SESSION_DATA_METRICS, "")),
                        t.lookups, d)
        ELSE IF IsNone(total_session_count) \/ IsNone(crash_count)
        THEN AggOutcome("TypeError", None, t.emitted, t.lookups, d)
        ELSE AggOutcome("",
                 Some(<<(col_name :>
                     Some(crash_free_rate(crash_count[1], total_session_count[1])))>>),
                 t.emitted, t.lookups, d)

\* As aggregate_query_results_v2, but without the assertion on the length.
aggregate_query_results_v2_first_row(self, d, a) ==
    IF Len(d) >= 1 /\ {"count", "crashed"} \ DOMAIN d[1] # {}
    THEN AggOutcome("KeyError", None, <<>>, <<>>, d)
    ELSE
    LET total_count == IF Len(d) = 0 THEN Some(Num(0, 1)) ELSE d[1]["count"]
        crash_count == IF Len(d) = 0 THEN Some(Num(0, 1)) ELSE d[1]["crashed"]
        col_name == IF HasAlias(a) THEN a[1] ELSE CRASH_RATE_ALERT_AGGREGATE_ALIAS
    IN  IF IsZero(total_count)
        THEN AggOutcome("", Some(<<(col_name :> None)>>),
                        <<Incr(NO_SESSION_DATA_METRICS, "")>>, <<>>, d)
        ELSE IF IsNone(total_count) \/ IsNone(crash_count)
        THEN AggOutcome("TypeError", None, <<>>, <<>>, d)
        ELSE AggOutcome("",
                 Some(<<(col_name :>
                     Some(crash_free_rate(crash_count[1], total_count[1])))>>),
                 <<>>, <<>>, d)

aggregate_query_results_v2(self, d, a) ==
    IF Len(d) > 1 THEN AggOutcome("AssertionError", None, <<>>, <<>>, d)
    ELSE IF Len(d) = 1 /\ {"count", "crashed"} \ DOMAIN d[1] # {}
    THEN AggOutcome("KeyError", None, <<>>, <<>>, d)
    ELSE
    LET total_count == IF Len(d) = 0 THEN Some(Num(0, 1)) ELSE d[1]["count"]
        crash_count == IF Len(d) = 0 THEN Some(Num(0, 1)) ELSE d[1]["crashed"]
        col_name == IF HasAlias(a) THEN a[1] ELSE CRASH_RATE_ALERT_AGGREGATE_ALIAS
    IN  IF IsZero(total_count)
        THEN AggOutcome("", Some(<<(col_name :> None)>>),
                        <<Incr(NO_SESSION_DATA_METRICS, "")>>, <<>>, d)
        ELSE IF IsNone(total_count) \/ IsNone(crash_count)
        THEN AggOutcome("TypeError", None, <<>>, <<>>, d)
        ELSE AggOutcome("",
                 Some(<<(col_name :>
                     Some(crash_free_rate(crash_count[1], total_count[1])))>>),
                 <<>>, <<>>, d)

\* As MetricsAggregateQueryResults, but tagging the counter with the format
\* that was not used.
MetricsAggregateQueryResults_other_tag(self, d, a) ==
    LET version == IF is_crash_rate_format_v2(d) THEN "v2" ELSE "v1"
        result == IF version = "v2"
                  THEN aggregate_query_results_v2(self, d, a)
                  ELSE aggregate_query_results_v1(self, d, a)
    IN  IF result.exc # "" THEN result
        ELSE [result EXCEPT
                !.emitted = Append(@, Incr(AGGREGATE_QUERY_RESULTS,
                                           IF version = "v2" THEN "v1" ELSE "v2"))]

MetricsAggregateQueryResults(self, d, a) ==
    LET version == IF is_crash_rate_format_v2(d) THEN "v2" ELSE "v1"
        result == IF version = "v2"
                  THEN aggregate_query_results_v2(self, d, a)
                  ELSE aggregate_query_results_v1(self, d, a)
    IN  IF result.exc # "" THEN result
        ELSE [result EXCEPT
                !.emitted = Append(@, Incr(AGGREGATE_QUERY_RESULTS, version))]

IsMetrics(self) == self.entity_key \in {"MetricsCounters", "MetricsSets"}

IsEventsOrTransactions(self) == self.entity_key \in {"Events", "Transactions"}

aggregate_query_results(self, d, a) ==
    IF IsEventsOrTransactions(self)
    THEN EventsAndTransactionAggregateQueryResults(self, d, a)
    ELSE IF self.entity_key = "Sessions"
    THEN SessionsAggregateQueryResults(self, d, a)
    ELSE MetricsAggregateQueryResults(self, d, a)

----------------------------------------------------------------------------
(* apply_dataset_query_conditions *)

\* str.lower() of one character.
LowerChar(c) ==
    IF \E k \in 1..Len(UpperCase) : UpperCase[k] = c
    THEN LowerCase[CHOOSE k \in 1..Len(UpperCase) : UpperCase[k] = c]
    ELSE c

Lower(s) == [k \in 1..Len(s) |-> LowerChar(s[k])]

\* sep.join(parts)
RECURSIVE Join(_, _)
Join(sep, parts) ==
    IF Len(parts) = 0 THEN <<>>
    ELSE IF Len(parts) = 1 THEN parts[1]
    ELSE parts[1] \o sep \o Join(sep, Tail(parts))

\* As apply_dataset_query_conditions, but with the dataset's condition taking
\* precedence over the event types.
apply_dataset_query_conditions_default_first(dataset, query, event_types, discover) ==
    IF ~discover /\ dataset = TRANSACTIONS THEN query
    ELSE IF dataset \in DOMAIN DATASET_CONDITIONS
    THEN LET event_type_conditions == DATASET_CONDITIONS[dataset]
         IN  IF Len(query) > 0
             THEN str_open \o event_type_conditions \o str_and \o query \o str_close
             ELSE event_type_conditions
    ELSE IF ~IsNone(event_types) /\ Len(event_types[1]) > 0
    THEN LET event_type_conditions ==
                 Join(str_or,
                      [k \in 1..Len(event_types[1]) |->
                          str_event_type_prefix \o Lower(event_types[1][k])])
         IN  IF Len(query) > 0
             THEN str_open \o event_type_conditions \o str_and \o query \o str_close
             ELSE event_type_conditions
    ELSE query

\* As apply_dataset_query_conditions, but joining the conditions and the query
\* without parentheses.
apply_dataset_query_conditions_bare(dataset, query, event_types, discover) ==
    IF ~discover /\ dataset = TRANSACTIONS THEN query
    ELSE IF ~IsNone(event_types) /\ Len(event_types[1]) > 0
    THEN LET event_type_conditions ==
                 Join(str_or,
                      [k \in 1..Len(event_types[1]) |->
                          str_event_type_prefix \o Lower(event_types[1][k])])
         IN  IF Len(query) > 0
             THEN event_type_conditions \o Tail(str_and) \o query \o str_close
             ELSE event_type_conditions
    ELSE IF dataset \in DOMAIN DATASET_CONDITIONS
    THEN LET event_type_conditions == DATASET_CONDITIONS[dataset]
         IN  IF Len(query) > 0
             THEN event_type_conditions \o Tail(str_and) \o query \o str_close
             ELSE event_type_conditions
    ELSE query

\* As apply_dataset_query_conditions, but without the early return for the
\* transactions dataset.
apply_dataset_query_conditions_no_early_return(dataset, query, event_types, discover) ==
    IF ~IsNone(event_types) /\ Len(event_types[1]) > 0
    THEN LET event_type_conditions ==
                 Join(str_or,
                      [k \in 1..Len(event_types[1]) |->
                          str_event_type_prefix \o Lower(event_types[1][k])])
         IN  IF Len(query) > 0
             THEN str_open \o event_type_conditions \o str_and \o query \o str_close
             ELSE event_type_conditions
    ELSE IF dataset \in DOMAIN DATASET_CONDITIONS
    THEN LET event_type_conditions == DATASET_CONDITIONS[dataset]
         IN  IF Len(query) > 0
             THEN str_open \o event_type_conditions \o str_and \o query \o str_close
             ELSE event_type_conditions
    ELSE query

apply_dataset_query_conditions(dataset, query, event_types, discover) ==
    IF ~discover /\ dataset = TRANSACTIONS THEN query
    ELSE IF ~IsNone(event_types) /\ Len(event_types[1]) > 0
    THEN LET event_type_conditions ==
                 Join(str_or,
                      [k \in 1..Len(event_types[1]) |->
                          str_event_type_prefix \o Lower(event_types[1][k])])
         IN  IF Len(query) > 0
             THEN str_open \o event_type_conditions \o str_and \o query \o str_close
             ELSE event_type_conditions
    ELSE IF dataset \in DOMAIN DATASET_CONDITIONS
    THEN LET event_type_conditions == DATASET_CONDITIONS[dataset]
         IN  IF Len(query) > 0
             THEN str_open \o event_type_conditions \o str_and \o query \o str_close
             ELSE event_type_conditions
    ELSE query

----------------------------------------------------------------------------
(* get_entity_extra_params, get_granularity, build_query_builder *)

\* As get_granularity, but with the upper boundary of each bucket excluded.
get_granularity_exclusive(self) ==
    IF self.time_window < 3600 THEN 10
    ELSE IF self.time_window < 4 * 3600 THEN 60
    ELSE IF 4 * 3600 <= self.time_window /\ self.time_window < 24 * 3600 THEN 3600
    ELSE 24 * 3600

get_granularity(self) ==
    IF self.time_window <= 3600 THEN 10
    ELSE IF self.time_window <= 4 * 3600 THEN 60
    ELSE IF 4 * 3600 < self.time_window /\ self.time_window <= 24 * 3600 THEN 3600
    ELSE 24 * 3600

get_entity_extra_params(self) ==
    IF IsEventsOrTransactions(self) THEN <<>>
    ELSE IF self.entity_key = "Sessions" THEN [organization |-> self.org_id]
    ELSE [organization |-> self.org_id, granularity |-> get_granularity(self)]

\* Outcome of build_query_builder: params is the caller's mapping after the
\* call (None if the caller passed none).
BuildOutcome(e, v, l, p) == [exc |-> e, val |-> v, lookups |-> l, params |-> p]

\* params after "if params is None: params = {}", project_id and environment
\* have been set.
SetParams(p, project_ids, environment, with_environment) ==
    LET p0 == IF IsNone(p) THEN <<>> ELSE p[1]
        p1 == ("project_id" :> project_ids) @@ p0
    IN  IF with_environment /\ ~IsNone(environment)
        THEN ("environment" :> environment[1].name) @@ p1
        ELSE p1

EventsAndTransactionBuildQueryBuilder(self, query, project_ids, environment, p) ==
    LET params2 == SetParams(p, project_ids, environment, TRUE)
        query2 == apply_dataset_query_conditions(self.dataset, query,
                                                 self.event_types, FALSE)
    IN  BuildOutcome("",
            Some([builder |-> "QueryBuilder",
                  dataset |-> self.dataset,
                  query |-> query2,
                  selected_columns |-> <<self.aggregate>>,
                  params |-> params2,
                  skip_time_conditions |-> TRUE,
                  parser_config_overrides |->
                      [blocked_keys |-> ALERT_BLOCKED_FIELDS]]),
            <<>>,
            IF IsNone(p) THEN None ELSE Some(params2))

SessionsBuildQueryBuilder(self, query, project_ids, environment, p) ==
    LET count_col == SearchCountCol(self.aggregate, 1)
    IN  IF IsNone(count_col)
        THEN BuildOutcome("UnsupportedQuerySubscription", None, <<>>, p)
        ELSE
        LET count_col_matched == count_col[1]
            aggregations ==
                <<self.aggregate,
                  str_identity_open \o count_col_matched \o str_as
                      \o CRASH_RATE_ALERT_SESSION_COUNT_ALIAS>>
            params2 == SetParams(p, project_ids, environment, TRUE)
        IN  BuildOutcome("",
                Some([builder |-> "SessionsQueryBuilder",
                      dataset |-> self.dataset,
                      query |-> query,
                      selected_columns |-> aggregations,
                      params |-> params2,
                      functions_acl |-> <<"identity">>,
                      skip_time_conditions |-> TRUE,
                      parser_config_overrides |->
                          [blocked_keys |-> ALERT_BLOCKED_FIELDS]]),
                <<>>,
                IF IsNone(p) THEN None ELSE Some(params2))

Condition(lhs, operator, rhs) == [lhs |-> lhs, op |-> operator, rhs |-> rhs]

get_snql_aggregations(self) ==
    IF self.entity_key = "MetricsCounters"
    THEN <<"sumIf(session.status, init) as count",
           "sumIf(session.status, crashed) as crashed">>
    ELSE <<"uniq() as count", "uniqIf(session.status, crashed) as crashed">>

get_snql_extra_conditions(self) ==
    IF self.entity_key = "MetricsCounters"
    THEN <<Condition(self.session_status, "IN",
                     resolve_tag_values(self.org_id, <<"crashed", "init">>))>>
    ELSE <<>>

MetricsBuildQueryBuilder(self, query, project_ids, environment, p) ==
    LET params2 == SetParams(p, project_ids, environment, FALSE)
        extra_conditions ==
            <<Condition("metric_id", "EQ", <<resolve(self.org_id, self.metric_key)>>)>>
            \o get_snql_extra_conditions(self)
            \o (IF ~IsNone(environment)
                THEN <<Condition(resolve_tag_key(self.org_id, "environment"), "EQ",
                                 <<resolve_tag_value(self.org_id,
                                                     environment[1].name)>>)>>
                ELSE <<>>)
        looked ==
            <<Lookup("resolve", <<self.metric_key>>, 0)>>
            \o (IF self.entity_key = "MetricsCounters"
                THEN <<Lookup("resolve_tag_values", <<"crashed", "init">>, 0)>>
                ELSE <<>>)
            \o (IF ~IsNone(environment)
                THEN <<Lookup("resolve_tag_key", <<"environment">>, 0),
                       Lookup("resolve_tag_value", <<environment[1].name>>, 0)>>
                ELSE <<>>)
    IN  BuildOutcome("",
            Some([builder |-> "AlertMetricsQueryBuilder",
                  query |-> query,
                  selected_columns |-> get_snql_aggregations(self),
                  params |-> params2,
                  skip_time_conditions |-> TRUE,
                  granularity |-> get_granularity(self),
                  conditions |-> extra_conditions]),
            looked,
            IF IsNone(p) THEN None ELSE Some(params2))

build_query_builder(self, query, project_ids, environment, p) ==
    IF IsEventsOrTransactions(self)
    THEN EventsAndTransactionBuildQueryBuilder(self, query, project_ids,
                                               environment, p)
    ELSE IF self.entity_key = "Sessions"
    THEN SessionsBuildQueryBuilder(self, query, project_ids, environment, p)
    ELSE MetricsBuildQueryBuilder(self, query, project_ids, environment, p)

----------------------------------------------------------------------------
(* Inputs *)

Percentage(sp1, a1, sp2, sp3, a2, sp4, tail) ==
    str_percentage_open \o sp1 \o a1 \o sp2 \o str_comma \o sp3 \o a2 \o sp4
        \o str_close \o tail

\* percentage(<a1>, <a2>)
CrashFreeAggregate(a1, a2) ==
    Percentage(<<>>, a1, <<>>, str_space, a2, <<>>, <<>>)

CrashFreeAggregates ==
    {CrashFreeAggregate(a1, a2) :
        a1 \in {str_sessions_crashed, str_users_crashed},
        a2 \in {str_sessions, str_users}}
    \cup {Percentage(str_space, str_sessions_crashed, str_space, <<>>,
                     str_users, str_space \o str_space, str_as_x)}

OtherAggregates ==
    {str_count_call,
     \* arguments swapped
     CrashFreeAggregate(str_sessions, str_sessions_crashed),
     \* second argument is not a bare sessions/users
     CrashFreeAggregate(str_users_crashed, str_users_crashed),
     \* leading space
     str_space \o CrashFreeAggregate(str_sessions_crashed, str_sessions),
     \* no closing parenthesis
     str_percentage_open \o str_users_crashed \o str_comma \o str_users,
     \* no comma
     str_percentage_open \o str_sessions_crashed \o str_space \o str_sessions
         \o str_close}

AggregateInputs == CrashFreeAggregates \cup OtherAggregates

DatasetInputs == QueryDatasets \cup {DISCOVER}

TimeWindowInputs == {3600, 3601, 14400, 14401, 86400, 86401}

ExtraFieldsInputs ==
    {None,
     Some(<<>>),
     Some([org_id |-> 1]),
     Some([event_types |-> <<str_ERROR, str_DEFAULT>>]),
     Some([event_types |-> <<>>]),
     Some([org_id |-> 1, event_types |-> <<str_TRANSACTION>>])}

AliasInputs == {None, Some("my_alias")}

Counts == {0, 1, 3}

\* An index the indexer does not know.
UnknownIndex == Cardinality(IndexedStrings) + 1

Int2Cell(n) == Some(Num(n, 1))

\* Rows of the crash rate query in the current format.
RowsV2 ==
    {[count |-> Int2Cell(c), crashed |-> Int2Cell(k)] : c \in Counts, k \in Counts}

\* A row of the crash rate query in the legacy format: the index of a session
\* status and the count of the sessions with that status.
RowV1(a, i, v) ==
    ("tags[7]" :> Int2Cell(i)) @@ ((IF HasAlias(a) THEN a[1] ELSE "value") :> Int2Cell(v))

RowsV1Counted(a) ==
    {RowV1(a, i, v) : i \in {INDEXER["init"], INDEXER["crashed"]}, v \in Counts}

RowsV1(a) ==
    RowsV1Counted(a)
    \cup {RowV1(a, i, 1) : i \in {INDEXER["errored"], UnknownIndex}}

\* Rows of the sessions query: the crash rate k / c, or null when there were no sessions.
RowsSessions(a) ==
    LET col == IF HasAlias(a) THEN a[1] ELSE CRASH_RATE_ALERT_AGGREGATE_ALIAS
    IN  {(col :> Some(Num(k, c))) @@ ("_total_count" :> Int2Cell(c)) :
            c \in Counts \ {0}, k \in Counts}
        \cup {(col :> None) @@ ("_total_count" :> Int2Cell(0))}

\* Rows of an events or transactions query.
RowsEvents(a) ==
    {((IF HasAlias(a) THEN a[1] ELSE "count") :> Int2Cell(v)) : v \in Counts}

Batches(rows) == UNION {[1..n -> rows] : n \in 0..MaxRows}

\* The rows of which the longer batches in the current format are made.
RowsV2Few == {r \in RowsV2 : r.count = Int2Cell(3) /\ r.crashed # Int2Cell(3)}

\* Batches in which the two formats meet.
MixedBatches(a) ==
    IF MaxRows < 2 THEN {}
    ELSE {<<r1, r2>> : r1 \in RowsV1Counted(a), r2 \in RowsV2Few}
         \cup {<<r2, r1>> : r1 \in RowsV1Counted(a), r2 \in RowsV2Few}

\* The batches the backend returns for the query of a subscription.
BatchInputs(self, a) ==
    IF IsEventsOrTransactions(self) THEN Batches(RowsEvents(a))
    ELSE IF self.entity_key = "Sessions" THEN Batches(RowsSessions(a))
    ELSE Batches(RowsV1(a)) \cup {<<r>> : r \in RowsV2} \cup Batches(RowsV2Few)
         \cup MixedBatches(a)

QueryInputs == {<<>>, str_release}

ProjectIdsInputs == {<<1, 2>>}

EnvironmentInputs == {None, Some([name |-> "prod"])}

ParamsInputs == {None, Some(<<>>), Some([project_id |-> <<9>>])}

\* The event_types argument of apply_dataset_query_conditions.
EventTypesInputs ==
    {None, Some(<<>>), Some(<<str_TRANSACTION>>),
     Some(<<str_ERROR, str_DEFAULT>>), Some(<<str_DEFAULT, str_ERROR>>)}

----------------------------------------------------------------------------
(* The caller: creates a subscription, asks it for its extra params and    *)
(* its query any number of times, submits the query it built, receives the *)
(* batch the backend returns and passes it to aggregate_query_results.  It *)
(* drops the batch before it starts a new query, and may drop the          *)
(* subscription at any time.                                               *)

NoArgs == [none |-> TRUE]

Init ==
    /\ sub = None
    /\ data = <<>>
    /\ alias = None
    /\ params = None
    /\ op = ""
    /\ ret = None
    /\ exc = ""
    /\ emitted = <<>>
    /\ lookups = <<>>
    /\ before = NoArgs
    /\ calls = 0

\* The operations after which the caller holds no batch.
QueryPhase ==
    {"get_entity_subscription_for_dataset", "get_entity_extra_params",
     "build_query_builder", "drop_batch"}

\* The operations after which the caller holds a batch.
BatchPhase == {"execute", "aggregate_query_results"}

Create(dataset, aggregate, time_window, extra_fields) ==
    /\ op \in {"", "discard"}
    /\ LET o == get_entity_subscription_for_dataset(dataset, aggregate,
                                                    time_window, extra_fields)
       IN  /\ sub' = o.val
           /\ ret' = o.val
           /\ exc' = o.exc
           /\ emitted' = o.emitted
           /\ lookups' = o.lookups
    /\ op' = "get_entity_subscription_for_dataset"
    /\ before' = [dataset |-> dataset, aggregate |-> aggregate,
                  time_window |-> time_window, extra_fields |-> extra_fields]
    /\ data' = <<>>
    /\ alias' = None
    /\ params' = None
    /\ calls' = 0

\* The module level function, called on its own by a caller that holds no
\* subscription.
ApplyDatasetQueryConditions(dataset, query, event_types, discover) ==
    /\ op \in {"", "discard"}
    /\ ret' = Some(apply_dataset_query_conditions(dataset, query, event_types, discover))
    /\ exc' = ""
    /\ op' = "apply_dataset_query_conditions"
    /\ before' = [dataset |-> dataset, query |-> query,
                  event_types |-> event_types, discover |-> discover]
    /\ sub' = None
    /\ data' = <<>>
    /\ alias' = None
    /\ params' = None
    /\ emitted' = <<>>
    /\ lookups' = <<>>
    /\ calls' = 0

GetEntityExtraParams ==
    /\ ~IsNone(sub)
    /\ op \in QueryPhase
    /\ ret' = Some(get_entity_extra_params(sub[1]))
    /\ exc' = ""
    /\ emitted' = <<>>
    /\ lookups' = <<>>
    /\ op' = "get_entity_extra_params"
    /\ before' = [sub |-> sub]
    /\ data' = <<>>
    /\ alias' = None
    /\ params' = None
    /\ calls' = 0
    /\ UNCHANGED sub

BuildQueryBuilder(query, project_ids, environment, p) ==
    /\ ~IsNone(sub)
    /\ op \in QueryPhase
    /\ LET o == build_query_builder(sub[1], query, project_ids, environment, p)
       IN  /\ ret' = o.val
           /\ exc' = o.exc
           /\ lookups' = o.lookups
           /\ params' = o.params
    /\ emitted' = <<>>
    /\ op' = "build_query_builder"
    /\ before' = [sub |-> sub, query |-> query, project_ids |-> project_ids,
                  environment |-> environment, params |-> p]
    /\ data' = <<>>
    /\ alias' = None
    /\ calls' = 0
    /\ UNCHANGED sub

\* The caller hands the query it built to the backend.
Submit ==
    /\ op = "build_query_builder"
    /\ exc = ""
    /\ op' = "submit"
    /\ ret' = None
    /\ exc' = ""
    /\ emitted' = <<>>
    /\ lookups' = <<>>
    /\ params' = None
    /\ before' = NoArgs
    /\ UNCHANGED <<sub, data, alias, calls>>

\* The backend executes the query and returns the batch rows under alias a.
Execute(rows, a) ==
    /\ op = "submit"
    /\ data' = rows
    /\ alias' = a
    /\ op' = "execute"
    /\ ret' = None
    /\ exc' = ""
    /\ emitted' = <<>>
    /\ lookups' = <<>>
    /\ params' = None
    /\ before' = NoArgs
    /\ calls' = 0
    /\ UNCHANGED sub

ExecuteQuery ==
    /\ op = "submit"
    /\ \E a \in AliasInputs : \E rows \in BatchInputs(sub[1], a) : Execute(rows, a)

AggregateQueryResults ==
    /\ op \in BatchPhase
    /\ calls < MaxCalls
    /\ LET o == aggregate_query_results(sub[1], data, alias)
       IN  /\ ret' = o.val
           /\ exc' = o.exc
           /\ emitted' = o.emitted
           /\ lookups' = o.lookups
           /\ data' = o.data
    /\ op' = "aggregate_query_results"
    /\ before' = [sub |-> sub, data |-> data, alias |-> alias,
                  previous |-> IF calls = 0 THEN None ELSE Some([ret |-> ret, exc |-> exc])]
    /\ calls' = calls + 1
    /\ UNCHANGED <<sub, alias, params>>

\* The caller asks the Metrics class for the counts of the batch it received:
\* the static method, called on its own.
TranslateSessionsTagKeysAndValues ==
    /\ op = "execute"
    /\ IsMetrics(sub[1])
    /\ LET t == translate_sessions_tag_keys_and_values(data, sub[1].org_id, alias)
       IN  /\ ret' = IF t.exc = ""
                     THEN Some(<<t.total_session_count, t.crash_count>>)
                     ELSE None
           /\ exc' = t.exc
           /\ emitted' = t.emitted
           /\ lookups' = t.lookups
    /\ op' = "translate_sessions_tag_keys_and_values"
    /\ before' = [data |-> data, org_id |-> sub[1].org_id, alias |-> alias]
    /\ UNCHANGED <<sub, data, alias, params, calls>>

\* The caller drops the batch and what was computed from it.
DropBatch ==
    /\ op \in BatchPhase \cup {"translate_sessions_tag_keys_and_values"}
    /\ op' = "drop_batch"
    /\ data' = <<>>
    /\ alias' = None
    /\ ret' = None
    /\ exc' = ""
    /\ emitted' = <<>>
    /\ lookups' = <<>>
    /\ before' = NoArgs
    /\ calls' = 0
    /\ UNCHANGED <<sub, params>>

\* The caller drops the subscription, or gives up after a failed create.
Discard ==
    /\ op \notin {"", "discard"}
    /\ sub' = None
    /\ data' = <<>>
    /\ alias' = None
    /\ params' = None
    /\ op' = "discard"
    /\ ret' = None
    /\ exc' = ""
    /\ emitted' = <<>>
    /\ lookups' = <<>>
    /\ before' = NoArgs
    /\ calls' = 0

Next ==
    \/ \E dataset \in DatasetInputs, aggregate \in AggregateInputs,
          time_window \in TimeWindowInputs, extra_fields \in ExtraFieldsInputs :
            Create(dataset, aggregate, time_window, extra_fields)
    \/ \E dataset \in QueryDatasets, query \in QueryInputs,
          event_types \in EventTypesInputs, discover \in BOOLEAN :
            ApplyDatasetQueryConditions(dataset, query, event_types, discover)
    \/ GetEntityExtraParams
    \/ \E query \in QueryInputs, project_ids \in ProjectIdsInputs,
          environment \in EnvironmentInputs, p \in ParamsInputs :
            BuildQueryBuilder(query, project_ids, environment, p)
    \/ Submit
    \/ ExecuteQuery
    \/ AggregateQueryResults
    \/ TranslateSessionsTagKeysAndValues
    \/ DropBatch
    \/ Discard

Spec == Init /\ [][Next]_vars

----------------------------------------------------------------------------
(* Properties *)

Created == op = "get_entity_subscription_for_dataset"

Spaces == {<<>>, str_space, str_space \o str_space}

\* The aggregates percentage(<a1>, <a2>) with a1 one of sessions_crashed and
\* users_crashed and a2 equal to second, with any spacing and any text after
\* the closing parenthesis.
CrashFreeFormsOf(second) ==
    {Percentage(sp1, a1, sp2, sp3, second, sp4, tail) :
        sp1 \in Spaces, sp2 \in Spaces, sp3 \in Spaces, sp4 \in Spaces,
        a1 \in {str_sessions_crashed, str_users_crashed},
        tail \in {<<>>, str_as_x}}

CrashFreeForms == CrashFreeFormsOf(str_sessions) \cup CrashFreeFormsOf(str_users)

\* extra_fields is absent, empty or lacks the organization id.
LacksOrg(extra_fields) ==
    IsNone(extra_fields) \/ "org_id" \notin DOMAIN extra_fields[1]

\* C1: a create on the Metrics dataset with a crash free percentage aggregate
\* is never refused as unsupported, and the subscription it makes is
\* MetricsCounters when the second argument is sessions and MetricsSets when
\* it is users, whatever the first argument is.
C1_MetricsRoutedBySecondArgument ==
    (Created /\ before.dataset = METRICS /\ before.aggregate \in CrashFreeForms)
        => /\ exc # "UnsupportedQuerySubscription"
           /\ exc = "" =>
                sub[1].entity_key =
                    IF before.aggregate \in CrashFreeFormsOf(str_sessions)
                    THEN "MetricsCounters"
                    ELSE "MetricsSets"

\* C1 witness: percentage(sessions_crashed, users) was routed to MetricsSets and
\* percentage(users_crashed, sessions) would be routed to MetricsCounters.
C1_Witness ==
    /\ Created
    /\ before.dataset = METRICS
    /\ before.aggregate = CrashFreeAggregate(str_sessions_crashed, str_users)
    /\ exc = ""
    /\ sub[1].entity_key = "MetricsSets"

\* The (dataset, aggregate) pairs outside the supported set.
Unsupported(dataset, aggregate) ==
    \/ dataset \notin {EVENTS, TRANSACTIONS, SESSIONS, METRICS}
    \/ dataset \in {SESSIONS, METRICS} /\ aggregate \notin CrashFreeForms

\* C2: a create with an unsupported (dataset, aggregate) pair raises
\* UnsupportedQuerySubscription and leaves the caller without a subscription,
\* whatever time_window and extra_fields are.
C2_UnsupportedPairsFail ==
    (Created /\ Unsupported(before.dataset, before.aggregate))
        => /\ exc = "UnsupportedQuerySubscription"
           /\ IsNone(sub)
           /\ IsNone(ret)

\* C2 witness: a Metrics create with an organization id and an aggregate that
\* lacks the closing parenthesis was refused.
C2_Witness ==
    /\ Created
    /\ before.dataset = METRICS
    /\ before.aggregate =
           str_percentage_open \o str_users_crashed \o str_comma \o str_users
    /\ before.extra_fields = Some([org_id |-> 1])
    /\ exc = "UnsupportedQuerySubscription"
    /\ IsNone(sub)

\* C3: a Sessions or Metrics create with a supported aggregate and extra_fields
\* that is absent, empty or lacks the organization id raises
\* InvalidQuerySubscription and makes no subscription; every Sessions,
\* MetricsCounters or MetricsSets subscription that exists has an organization
\* id; an Events or Transactions create succeeds with any extra_fields.
C3_OrganizationRequired ==
    /\ (Created /\ before.dataset \in {SESSIONS, METRICS}
            /\ before.aggregate \in CrashFreeForms
            /\ LacksOrg(before.extra_fields))
        => (exc = "InvalidQuerySubscription" /\ IsNone(sub) /\ IsNone(ret))
    /\ (~IsNone(sub) /\ ~IsEventsOrTransactions(sub[1]))
        => "org_id" \in DOMAIN sub[1]
    /\ (Created /\ before.dataset \in {EVENTS, TRANSACTIONS})
        => (exc = "" /\ ~IsNone(sub))

\* C3 witness: a Sessions create with a supported aggregate and event types but
\* no organization id was refused.
C3_Witness ==
    /\ Created
    /\ before.dataset = SESSIONS
    /\ before.aggregate = CrashFreeAggregate(str_sessions_crashed, str_sessions)
    /\ before.extra_fields = Some([event_types |-> <<str_ERROR, str_DEFAULT>>])
    /\ exc = "InvalidQuerySubscription"

----------------------------------------------------------------------------
(* Properties of aggregate_query_results and build_query_builder *)

Aggregated == op = "aggregate_query_results"

Built == op = "build_query_builder"

\* The canonical aggregate field.
ColName(a) == IF HasAlias(a) THEN a[1] ELSE CRASH_RATE_ALERT_AGGREGATE_ALIAS

ValueColName(a) == IF HasAlias(a) THEN a[1] ELSE "value"

Normalizes(self) ==
    self.entity_key \in {"Sessions", "MetricsCounters", "MetricsSets"}

\* The last call returned exactly one row whose canonical value is null.
ReturnedNull ==
    /\ exc = ""
    /\ ~IsNone(ret)
    /\ Len(ret[1]) = 1
    /\ ColName(alias) \in DOMAIN ret[1][1]
    /\ IsNone(ret[1][1][ColName(alias)])

Signalled(name) == \E k \in DOMAIN emitted : emitted[k].name = name

\* A batch in the legacy format: every row has the tag column and the value
\* column, and the first row has no crashed field.
V1Batch(d, a) ==
    /\ Len(d) > 0
    /\ "crashed" \notin DOMAIN d[1]
    /\ \A k \in DOMAIN d : {"tags[7]", ValueColName(a)} \subseteq DOMAIN d[k]

\* A batch in the current format: one row with the fields count and crashed.
V2Batch(d) == Len(d) = 1 /\ {"count", "crashed"} \subseteq DOMAIN d[1]

\* The session status a legacy row is about, None if its index does not resolve.
Label(row) ==
    IF "tags[7]" \in DOMAIN row /\ ~IsNone(row["tags[7]"])
    THEN LET i == row["tags[7]"][1].num
         IN  IF i = INDEXER["init"] THEN Some("init")
             ELSE IF i = INDEXER["crashed"] THEN Some("crashed")
             ELSE IF i = INDEXER["errored"] THEN Some("errored")
             ELSE None
    ELSE None

Unresolvable(d, a) == V1Batch(d, a) /\ \E k \in DOMAIN d : IsNone(Label(d[k]))

\* The total count of the batch is zero.
ZeroTotal(d, a) ==
    \/ V2Batch(d) /\ d[1]["count"] = Int2Cell(0)
    \/ /\ V1Batch(d, a)
       /\ \A k \in DOMAIN d :
            /\ ~IsNone(Label(d[k]))
            /\ Label(d[k]) = Some("init") => d[k][ValueColName(a)] = Int2Cell(0)

\* C4: when aggregate_query_results is called again with the batch it was
\* called with before, it returns (or raises) what it did the first time.
C4_SecondCallSameOutput ==
    (Aggregated /\ ~IsNone(before.previous))
        => (exc = before.previous[1].exc /\ ret = before.previous[1].ret)

\* C5 as stated: whenever aggregate_query_results returns, for any variant, it
\* returns exactly one row and that row has the canonical aggregate field.
C5_AlwaysOneRow ==
    (Aggregated /\ exc = "")
        => (Len(ret[1]) = 1 /\ ColName(alias) \in DOMAIN ret[1][1])

\* C5 as amended: whenever aggregate_query_results of a Sessions,
\* MetricsCounters or MetricsSets subscription returns, it returns exactly one
\* row and that row has the canonical aggregate field; the Events and
\* Transactions variants return the batch they were given, whatever its length.
C5_NormalizingVariantsReturnOneRow ==
    (Aggregated /\ exc = "")
        => IF Normalizes(sub[1])
           THEN Len(ret[1]) = 1 /\ ColName(alias) \in DOMAIN ret[1][1]
           ELSE ret = Some(before.data)

\* C5 witness: a Metrics subscription reduced a two-row legacy batch to one row
\* with a value in the canonical field.
C5_Witness ==
    /\ Aggregated
    /\ IsMetrics(sub[1])
    /\ V1Batch(before.data, alias)
    /\ Len(before.data) = 2
    /\ exc = ""
    /\ Len(ret[1]) = 1
    /\ ~IsNone(ret[1][1][ColName(alias)])

\* C6: every query build_query_builder returns, for any variant, carries the
\* blocked fields.
C6_BlockedFieldsInEveryQuery ==
    (Built /\ exc = "")
        => /\ "parser_config_overrides" \in DOMAIN ret[1]
           /\ ret[1].parser_config_overrides.blocked_keys = ALERT_BLOCKED_FIELDS

\* C7 as stated: for the Sessions and both Metrics variants, an empty result
\* set, a zero total count and an unresolvable tag index each give a null
\* result and a signal, never an error.
C7_DataQualityNeverFails ==
    /\ (Aggregated /\ Normalizes(sub[1]) /\ Len(before.data) = 0)
        => (ReturnedNull /\ emitted # <<>>)
    /\ (Aggregated /\ IsMetrics(sub[1])
            /\ (ZeroTotal(before.data, alias) \/ Unresolvable(before.data, alias)))
        => (ReturnedNull /\ emitted # <<>>)

\* C7 as amended: for both Metrics variants, an empty result set, a zero total
\* count and an unresolvable tag index each give a one-row null result and the
\* "no session data" signal (and the "metric index not found" signal in the
\* last case), never an error; for the Sessions variant a one-row batch with a
\* null value gives a null result and the "no session data" signal, while an
\* empty result set fails the one-row assertion.
C7_DataQualityDegrades ==
    /\ (Aggregated /\ IsMetrics(sub[1])
            /\ (\/ Len(before.data) = 0
                \/ ZeroTotal(before.data, alias)
                \/ Unresolvable(before.data, alias)))
        => /\ ReturnedNull
           /\ Signalled(NO_SESSION_DATA_METRICS)
           /\ Unresolvable(before.data, alias) => Signalled(METRIC_INDEX_NOT_FOUND)
    /\ (Aggregated /\ sub[1].entity_key = "Sessions" /\ Len(before.data) = 1
            /\ ColName(alias) \in DOMAIN before.data[1]
            /\ IsNone(before.data[1][ColName(alias)]))
        => (ReturnedNull /\ Signalled(NO_SESSION_DATA_SESSIONS))
    /\ (Aggregated /\ sub[1].entity_key = "Sessions" /\ Len(before.data) = 0)
        => (exc = "AssertionError" /\ IsNone(ret))

\* C7 witness: a Metrics subscription was given an empty result set and
\* returned a null result with the "no session data" signal.
C7_Witness ==
    /\ Aggregated
    /\ IsMetrics(sub[1])
    /\ before.data = <<>>
    /\ ReturnedNull
    /\ Signalled(NO_SESSION_DATA_METRICS)

\* Every value of the batch that is not null is a number >= 0.
NonNegative(d) ==
    \A k \in DOMAIN d : \A c \in DOMAIN d[k] :
        IsNone(d[k][c]) \/ d[k][c][1].num >= 0

\* x <= y for rationals with positive denominators.
Leq(x, y) == x.num * y.den <= y.num * x.den

\* A null value or a percentage within [0, 100].
InRange(cell) == IsNone(cell) \/ (Leq(Num(0, 1), cell[1]) /\ Leq(cell[1], Num(100, 1)))

\* C8: whenever a normalizing variant accepts a batch of non-negative values,
\* the canonical value it returns is null or within [0, 100].
C8_AlwaysWithinRange ==
    (Aggregated /\ Normalizes(sub[1]) /\ exc = "" /\ NonNegative(before.data))
        => InRange(ret[1][1][ColName(alias)])

\* r is p / q (q > 0) rounded to three decimals.
IsRounded3(r, p, q) ==
    /\ 1000 % r.den = 0
    /\ LET k == r.num * (1000 \div r.den)
           x == Num(p, q)
       IN  2 * Abs(k * x.den - 1000 * x.num) <= x.den

\* C9: a Metrics subscription given one row with count and crashed returns one
\* row with only the canonical field, null when count is 0 and
\* (1 - crashed / count) * 100 rounded to three decimals otherwise; given the
\* empty batch it returns one row with a null canonical field.
C9_FormatV2Value ==
    (Aggregated /\ IsMetrics(sub[1]))
        => /\ V2Batch(before.data) =>
                /\ exc = ""
                /\ Len(ret[1]) = 1
                /\ DOMAIN ret[1][1] = {ColName(alias)}
                /\ LET total == before.data[1]["count"][1]
                       crashed == before.data[1]["crashed"][1]
                       value == ret[1][1][ColName(alias)]
                   IN  IF total.num = 0 THEN IsNone(value)
                       ELSE /\ ~IsNone(value)
                            /\ IsRounded3(value[1],
                                   100 * (total.num * crashed.den
                                          - crashed.num * total.den),
                                   total.num * crashed.den)
           /\ before.data = <<>> =>
                (exc = "" /\ ret = Some(<<(ColName(alias) :> None)>>))

\* C9 witness: count 3 and crashed 1 gave 66.667.
C9_Witness ==
    /\ Aggregated
    /\ IsMetrics(sub[1])
    /\ before.data = <<[count |-> Int2Cell(3), crashed |-> Int2Cell(1)]>>
    /\ ret = Some(<<(ColName(alias) :> Some(Num(66667, 1000)))>>)

\* C10: a Metrics subscription given a legacy batch in which some row has a tag
\* index that does not resolve returns one row with a null canonical field and
\* emits the "metric index not found" signal, whatever the other rows are.
C10_UnresolvableRowGivesNull ==
    (Aggregated /\ IsMetrics(sub[1]) /\ Unresolvable(before.data, alias))
        => /\ exc = ""
           /\ ret = Some(<<(ColName(alias) :> None)>>)
           /\ Signalled(METRIC_INDEX_NOT_FOUND)

\* C10 witness: the row that does not resolve came after a row with 3 sessions,
\* and the result was null.
C10_Witness ==
    /\ Aggregated
    /\ IsMetrics(sub[1])
    /\ before.data = <<RowV1(alias, INDEXER["init"], 3), RowV1(alias, UnknownIndex, 1)>>
    /\ ret = Some(<<(ColName(alias) :> None)>>)
    /\ Signalled(METRIC_INDEX_NOT_FOUND)

----------------------------------------------------------------------------
(* Properties of the legacy format and of the Sessions normalization *)

Translated == op = "translate_sessions_tag_keys_and_values"

\* The sum of the value column over the rows of d from row i on whose session
\* status is label.
RECURSIVE SumOfLabel(_, _, _, _)
SumOfLabel(d, a, label, i) ==
    IF i > Len(d) THEN 0
    ELSE (IF Label(d[i]) = Some(label) THEN d[i][ValueColName(a)][1].num ELSE 0)
         + SumOfLabel(d, a, label, i + 1)

\* Every tag value of the legacy batch resolves.
AllResolve(d, a) == V1Batch(d, a) /\ ~Unresolvable(d, a)

\* C11: translate_sessions_tag_keys_and_values, given a legacy batch whose tag
\* values all resolve, returns as total the sum of the value column over the
\* rows labelled init and as crashed the sum over the rows labelled crashed,
\* also when several rows have the same label.
C11_CountsAreSumsPerLabel ==
    (Translated /\ AllResolve(before.data, before.alias))
        => /\ exc = ""
           /\ ret = Some(<<Int2Cell(SumOfLabel(before.data, before.alias, "init", 1)),
                           Int2Cell(SumOfLabel(before.data, before.alias, "crashed", 1))>>)

IsSessions(self) == self.entity_key = "Sessions"

\* C12: a Sessions subscription given one row that has the canonical column
\* returns that one row with the same columns; a value v of the canonical
\* column has become (1 - v) * 100 rounded to three decimals, a null value is
\* still null and the "no session data" signal was emitted; every other column
\* has the value it had.
C12_SessionsValue ==
    (Aggregated /\ IsSessions(sub[1]) /\ Len(before.data) = 1
        /\ ColName(alias) \in DOMAIN before.data[1])
        => /\ exc = ""
           /\ Len(ret[1]) = 1
           /\ DOMAIN ret[1][1] = DOMAIN before.data[1]
           /\ \A c \in DOMAIN before.data[1] \ {ColName(alias)} :
                ret[1][1][c] = before.data[1][c]
           /\ LET v == before.data[1][ColName(alias)]
                  value == ret[1][1][ColName(alias)]
              IN  IF IsNone(v)
                  THEN IsNone(value) /\ Signalled(NO_SESSION_DATA_SESSIONS)
                  ELSE /\ ~IsNone(value)
                       /\ IsRounded3(value[1], 100 * (v[1].den - v[1].num), v[1].den)
                       /\ ~Signalled(NO_SESSION_DATA_SESSIONS)

\* C12 witness: under an alias, the crash rate 1/3 of 3 sessions became 66.667
\* and the session count is still 3.
C12_Witness ==
    /\ Aggregated
    /\ IsSessions(sub[1])
    /\ alias = Some("my_alias")
    /\ before.data = <<("my_alias" :> Some(Num(1, 3))) @@ ("_total_count" :> Int2Cell(3))>>
    /\ ret = Some(<<("my_alias" :> Some(Num(66667, 1000))) @@ ("_total_count" :> Int2Cell(3))>>)

\* C13: a Sessions subscription given a batch whose length is not one, and a
\* Metrics subscription given a batch of more than one row whose first row has
\* the crashed field, fail the assertion on the length: nothing is returned,
\* no signal is emitted and the batch is as it was.
C13_WrongLengthFails ==
    (Aggregated
        /\ \/ IsSessions(sub[1]) /\ Len(before.data) # 1
           \/ IsMetrics(sub[1]) /\ Len(before.data) > 1
                /\ "crashed" \in DOMAIN before.data[1])
        => /\ exc = "AssertionError"
           /\ IsNone(ret)
           /\ emitted = <<>>
           /\ data = before.data

\* C13 witness: a Metrics subscription refused two rows in the current format.
C13_Witness ==
    /\ Aggregated
    /\ IsMetrics(sub[1])
    /\ Len(before.data) = 2
    /\ \A k \in DOMAIN before.data : V2Batch(<<before.data[k]>>)
    /\ exc = "AssertionError"
    /\ IsNone(ret)

----------------------------------------------------------------------------
(* Properties of the query operations *)

\* C14: aggregate_query_results leaves the batch it was given and the
\* subscription as they were, and build_query_builder leaves the caller's
\* params mapping and the subscription as they were.
C14_ArgumentsUnchanged ==
    /\ Aggregated => (data = before.data /\ sub = before.sub)
    /\ Built => (params = before.params /\ sub = before.sub)

AskedExtraParams == op = "get_entity_extra_params"

\* The granularity table.
GranularityOf(time_window) ==
    CASE time_window = 3600 -> 10
      [] time_window = 3601 -> 60
      [] time_window = 14400 -> 60
      [] time_window = 14401 -> 3600
      [] time_window = 86400 -> 3600
      [] time_window = 86401 -> 86400
      [] time_window < 3600 -> 10
      [] time_window > 3601 /\ time_window < 14400 -> 60
      [] time_window > 14401 /\ time_window < 86400 -> 3600
      [] time_window > 86401 -> 86400

\* C15: the granularity a Metrics subscription reports in its extra params and
\* puts into the query it builds is the one the table gives for its
\* time_window, whatever its kind, aggregate and query are.
C15_GranularityTable ==
    /\ (AskedExtraParams /\ IsMetrics(sub[1]))
        => ret[1].granularity = GranularityOf(sub[1].time_window)
    /\ (Built /\ IsMetrics(sub[1]) /\ exc = "")
        => ret[1].granularity = GranularityOf(sub[1].time_window)

\* C15 witness: a four hour window has granularity 60.
C15_Witness ==
    /\ AskedExtraParams
    /\ IsMetrics(sub[1])
    /\ sub[1].time_window = 14400
    /\ ret[1].granularity = 60

Applied == op = "apply_dataset_query_conditions"

\* C16: apply_dataset_query_conditions with the transactions dataset and
\* discover false returns the query it was given, whatever the query and the
\* event types are; the query a Transactions subscription builds has the
\* caller's query text, also when the subscription has event types.
C16_TransactionsQueryUnchanged ==
    /\ (Applied /\ before.dataset = TRANSACTIONS /\ ~before.discover)
        => ret = Some(before.query)
    /\ (Built /\ sub[1].entity_key = "Transactions")
        => (exc = "" /\ ret[1].query = before.query)

\* C16 witness: a Transactions subscription with the event type TRANSACTION
\* built a query from release:1.0 and the query text is release:1.0.
C16_Witness ==
    /\ Built
    /\ sub[1].entity_key = "Transactions"
    /\ sub[1].event_types = Some(<<str_TRANSACTION>>)
    /\ before.query = str_release
    /\ ret[1].query = str_release

\* event.type:<name in lower case>
EventTypeCondition(name) ==
    <<"e", "v", "e", "n", "t", ".", "t", "y", "p", "e", ":">> \o
    (CASE name = <<"E", "R", "R", "O", "R">> -> <<"e", "r", "r", "o", "r">>
       [] name = <<"D", "E", "F", "A", "U", "L", "T">> ->
            <<"d", "e", "f", "a", "u", "l", "t">>
       [] name = <<"T", "R", "A", "N", "S", "A", "C", "T", "I", "O", "N">> ->
            <<"t", "r", "a", "n", "s", "a", "c", "t", "i", "o", "n">>)

\* The conditions of names from the k-th on, with OR between them.
RECURSIVE OrOfEventTypes(_, _)
OrOfEventTypes(names, k) ==
    IF k = Len(names) THEN EventTypeCondition(names[k])
    ELSE EventTypeCondition(names[k]) \o <<" ", "O", "R", " ">>
            \o OrOfEventTypes(names, k + 1)

\* The call is not answered by the rule for the transactions dataset.
NotShortCircuited == before.discover \/ before.dataset # TRANSACTIONS

\* The event type clause of the call, None if there is none.
ClauseOf(dataset, event_types) ==
    IF ~IsNone(event_types) /\ Len(event_types[1]) > 0
    THEN Some(OrOfEventTypes(event_types[1], 1))
    ELSE IF dataset = EVENTS THEN Some(EventTypeCondition(<<"E", "R", "R", "O", "R">>))
    ELSE IF dataset = TRANSACTIONS
    THEN Some(EventTypeCondition(<<"T", "R", "A", "N", "S", "A", "C", "T", "I", "O", "N">>))
    ELSE None

\* The clause the result carries: the whole result when the query is empty,
\* else what follows the opening parenthesis.
ClauseIn(result, query, clause) ==
    IF Len(query) = 0 THEN result = clause
    ELSE /\ Len(result) > Len(clause)
         /\ SubSeq(result, 2, Len(clause) + 1) = clause

\* C17: when apply_dataset_query_conditions is not answered by the rule for
\* the transactions dataset, a non-empty event_types gives the clause
\* event.type:<name in lower case> of each element, in the order of the list,
\* with OR between them, whatever the dataset is; an absent or empty
\* event_types gives event.type:error for the events dataset and
\* event.type:transaction for the transactions dataset; for any other dataset
\* the query is returned as it is.
C17_EventTypeClause ==
    (Applied /\ NotShortCircuited)
        => LET clause == ClauseOf(before.dataset, before.event_types)
           IN  IF IsNone(clause) THEN ret = Some(before.query)
               ELSE ClauseIn(ret[1], before.query, clause[1])

\* C17 witness: the event types DEFAULT, ERROR on the events dataset gave
\* event.type:default OR event.type:error, without the dataset's own condition.
C17_Witness ==
    /\ Applied
    /\ before.dataset = EVENTS
    /\ before.event_types = Some(<<str_DEFAULT, str_ERROR>>)
    /\ before.query = <<>>
    /\ ret = Some(<<"e", "v", "e", "n", "t", ".", "t", "y", "p", "e", ":",
                    "d", "e", "f", "a", "u", "l", "t", " ", "O", "R", " ",
                    "e", "v", "e", "n", "t", ".", "t", "y", "p", "e", ":",
                    "e", "r", "r", "o", "r">>)

\* C18: whenever apply_dataset_query_conditions has a clause to add, it returns
\* (<clause>) AND (<query>) when the query is not empty, with the query text as
\* it was given, and the clause alone when the query is empty.
C18_ClauseAndQuery ==
    (Applied /\ NotShortCircuited
        /\ ~IsNone(ClauseOf(before.dataset, before.event_types)))
        => LET clause == ClauseOf(before.dataset, before.event_types)[1]
               query == before.query
           IN  IF Len(query) = 0 THEN ret = Some(clause)
               ELSE ret = Some(<<"(">> \o clause
                               \o <<")", " ", "A", "N", "D", " ", "(">>
                               \o query \o <<")">>)

\* C18 witness: the events dataset and the query release:1.0 gave
\* (event.type:error) AND (release:1.0).
C18_Witness ==
    /\ Applied
    /\ before.dataset = EVENTS
    /\ IsNone(before.event_types)
    /\ before.query = <<"r", "e", "l", "e", "a", "s", "e", ":", "1", ".", "0">>
    /\ ret = Some(<<"(", "e", "v", "e", "n", "t", ".", "t", "y", "p", "e", ":",
                    "e", "r", "r", "o", "r", ")", " ", "A", "N", "D", " ", "(",
                    "r", "e", "l", "e", "a", "s", "e", ":", "1", ".", "0", ")">>)

----------------------------------------------------------------------------
(* Properties of the Events and Transactions kinds *)

\* C19: a create on the events dataset makes an Events subscription and a
\* create on the transactions dataset makes a Transactions subscription,
\* whatever the aggregate is, a crash free percentage or not, and it is never
\* refused.
C19_EventsAndTransactionsKinds ==
    (Created /\ before.dataset \in {EVENTS, TRANSACTIONS})
        => /\ exc = ""
           /\ sub[1].entity_key =
                  IF before.dataset = EVENTS THEN "Events" ELSE "Transactions"
           /\ map_aggregate_to_entity_key(before.dataset, before.aggregate)
                  = Returns(sub[1].entity_key)

\* C19 witness: the transactions dataset with an aggregate that has no closing
\* parenthesis made a Transactions subscription.
C19_Witness ==
    /\ Created
    /\ before.dataset = TRANSACTIONS
    /\ before.aggregate =
           str_percentage_open \o str_users_crashed \o str_comma \o str_users
    /\ exc = ""
    /\ sub[1].entity_key = "Transactions"

\* C20: aggregate_query_results of an Events or Transactions subscription
\* returns the batch it was given, the same rows in the same order with the
\* same values, for the empty batch, one row and several rows, with or
\* without alias, and emits no signal.
C20_EventsAndTransactionsIdentity ==
    (Aggregated /\ IsEventsOrTransactions(sub[1]))
        => /\ exc = ""
           /\ ~IsNone(ret)
           /\ Len(ret[1]) = Len(before.data)
           /\ \A k \in DOMAIN before.data : ret[1][k] = before.data[k]
           /\ emitted = <<>>

\* C20 witness: a Transactions subscription returned a batch of two different
\* rows under an alias as it was.
C20_Witness ==
    /\ Aggregated
    /\ sub[1].entity_key = "Transactions"
    /\ alias = Some("my_alias")
    /\ before.data = <<("my_alias" :> Int2Cell(3)), ("my_alias" :> Int2Cell(0))>>
    /\ ret = Some(before.data)

----------------------------------------------------------------------------
(* Properties of the subscription and of its use of the resolver *)

\* The time column of each entity.
TimeColumnOf(entity_key) ==
    CASE entity_key = "Events" -> "timestamp"
      [] entity_key = "Transactions" -> "finish_ts"
      [] entity_key = "Sessions" -> "started"
      [] entity_key = "MetricsCounters" -> "timestamp"
      [] entity_key = "MetricsSets" -> "timestamp"

\* The operations on a subscription that exists.
Used ==
    op \in {"get_entity_extra_params", "build_query_builder",
            "aggregate_query_results"}

\* C21: the subscription a successful create makes has the entity that
\* map_aggregate_to_entity_key gives for the dataset and the aggregate of the
\* create, the dataset of the create and the time column of its entity; after
\* get_entity_extra_params, build_query_builder and aggregate_query_results
\* the subscription has the entity, dataset and time column it had before.
C21_KindDatasetAndTimeColumn ==
    /\ (Created /\ exc = "")
        => /\ Returns(sub[1].entity_key)
                = map_aggregate_to_entity_key(before.dataset, before.aggregate)
           /\ sub[1].dataset = before.dataset
           /\ sub[1].time_col = TimeColumnOf(sub[1].entity_key)
    /\ Used
        => /\ sub[1].entity_key = before.sub[1].entity_key
           /\ sub[1].dataset = before.sub[1].dataset
           /\ sub[1].time_col = before.sub[1].time_col
           /\ sub[1].time_col = TimeColumnOf(sub[1].entity_key)

\* C21 witness: a Transactions subscription, after it was asked twice to
\* aggregate a batch, still is a Transactions subscription over the
\* transactions dataset with the time column finish_ts.
C21_Witness ==
    /\ Aggregated
    /\ calls = 2
    /\ sub[1].entity_key = "Transactions"
    /\ sub[1].dataset = TRANSACTIONS
    /\ sub[1].time_col = "finish_ts"

\* identity(<token>) AS _total_count
TotalCountColumn(token) ==
    <<"i", "d", "e", "n", "t", "i", "t", "y", "(">> \o token
        \o <<")", " ", "A", "S", " ",
             "_", "t", "o", "t", "a", "l", "_", "c", "o", "u", "n", "t">>

\* C22: the query a Sessions subscription with the aggregate
\* percentage(X_crashed, Y) builds selects two columns, the aggregate and
\* identity(Y) AS _total_count, Y being the second argument of the aggregate.
C22_TotalCountOfSecondArgument ==
    (Built /\ IsSessions(sub[1]) /\ sub[1].aggregate \in CrashFreeForms)
        => /\ exc = ""
           /\ ret[1].selected_columns =
                <<sub[1].aggregate,
                  TotalCountColumn(
                      IF sub[1].aggregate \in CrashFreeFormsOf(str_sessions)
                      THEN <<"s", "e", "s", "s", "i", "o", "n", "s">>
                      ELSE <<"u", "s", "e", "r", "s">>)>>

\* The number of times the last operation asked the resolver for the key of
\* the tag session.status.
RECURSIVE SessionStatusKeyLookups(_)
SessionStatusKeyLookups(log) ==
    IF Len(log) = 0 THEN 0
    ELSE (IF log[1].fn = "resolve_tag_key" /\ log[1].strings = <<"session.status">>
          THEN 1 ELSE 0)
         + SessionStatusKeyLookups(Tail(log))

\* C23: the resolver is asked for the key of session.status once when a
\* Metrics subscription is made, and not in any build_query_builder or
\* aggregate_query_results call on that subscription; the condition on the
\* session status in the query of a MetricsCounters subscription has the
\* column resolved at construction.
C23_SessionStatusResolvedOnce ==
    /\ (Created /\ exc = "" /\ IsMetrics(sub[1]))
        => SessionStatusKeyLookups(lookups) = 1
    /\ (Built /\ IsMetrics(sub[1]))
        => /\ SessionStatusKeyLookups(lookups) = 0
           /\ sub[1].entity_key = "MetricsCounters"
                => ret[1].conditions[2].lhs = sub[1].session_status
    /\ (Aggregated /\ IsMetrics(sub[1]))
        => SessionStatusKeyLookups(lookups) = 0

\* The entries of the log of counters with the given name.
RECURSIVE Emissions(_, _)
Emissions(log, name) ==
    IF Len(log) = 0 THEN 0
    ELSE (IF log[1].name = name THEN 1 ELSE 0) + Emissions(Tail(log), name)

\* C24: every aggregate_query_results call of a Metrics subscription that
\* returns emits the format counter once, as the last signal of the call,
\* tagged v2 when the batch is not empty and its first row has the crashed
\* field and v1 otherwise; the call emits the "no session data" signal
\* exactly when the canonical value it returns is null, and then once.
C24_FormatCounter ==
    (Aggregated /\ IsMetrics(sub[1]) /\ exc = "")
        => /\ Emissions(emitted, "incidents.entity_subscription.aggregate_query_results") = 1
           /\ emitted[Len(emitted)] =
                [name |-> "incidents.entity_subscription.aggregate_query_results",
                 format |-> IF Len(before.data) > 0
                               /\ "crashed" \in DOMAIN before.data[1]
                            THEN "v2" ELSE "v1"]
           /\ Emissions(emitted,
                  "incidents.entity_subscription.metrics.aggregate_query_results.no_session_data")
                = IF IsNone(ret[1][1][ColName(alias)]) THEN 1 ELSE 0

\* C24 witness: a row in the current format with no sessions gave a null value,
\* the "no session data" signal and then the counter tagged v2.
C24_Witness ==
    /\ Aggregated
    /\ IsMetrics(sub[1])
    /\ before.data = <<[count |-> Int2Cell(0), crashed |-> Int2Cell(0)]>>
    /\ ReturnedNull
    /\ Len(emitted) = 2
    /\ emitted[1].name = NO_SESSION_DATA_METRICS
    /\ emitted[2] = Incr(AGGREGATE_QUERY_RESULTS, "v2")

\* C25: a create on the sessions or metrics dataset with an aggregate that is
\* not a crash free percentage and without an organization id raises
\* UnsupportedQuerySubscription; a create on the metrics dataset that raises,
\* whichever exception, has made no call to the resolver.
C25_AggregateCheckedFirst ==
    /\ (Created /\ before.dataset \in {SESSIONS, METRICS}
            /\ before.aggregate \notin CrashFreeForms
            /\ LacksOrg(before.extra_fields))
        => exc = "UnsupportedQuerySubscription"
    /\ (Created /\ before.dataset = METRICS /\ exc # "")
        => (lookups = <<>> /\ IsNone(sub))

\* C25 witness: a metrics create with count() and no extra fields was refused
\* as unsupported and the resolver was not called.
C25_Witness ==
    /\ Created
    /\ before.dataset = METRICS
    /\ before.aggregate = str_count_call
    /\ IsNone(before.extra_fields)
    /\ exc = "UnsupportedQuerySubscription"
    /\ lookups = <<>>

\* The aggregate has sessions or users somewhere in its text.
RECURSIVE HasCountToken(_, _)
HasCountToken(s, i) ==
    IF i > Len(s) THEN FALSE
    ELSE \/ (i + 7 <= Len(s)
             /\ SubSeq(s, i, i + 7) = <<"s", "e", "s", "s", "i", "o", "n", "s">>)
         \/ (i + 4 <= Len(s) /\ SubSeq(s, i, i + 4) = <<"u", "s", "e", "r", "s">>)
         \/ HasCountToken(s, i + 1)

\* C26: build_query_builder of a Sessions subscription that create made never
\* raises UnsupportedQuerySubscription, since the aggregate of such a
\* subscription has sessions or users in it; called with the same arguments on
\* a SessionsEntitySubscription constructed directly with count(), it does.
C26_SessionsBuildNeverUnsupported ==
    (Built /\ IsSessions(sub[1]))
        => /\ exc = ""
           /\ ~IsNone(ret)
           /\ HasCountToken(sub[1].aggregate, 1)
           /\ LET direct == SessionsEntitySubscription(
                                <<"c", "o", "u", "n", "t", "(", ")">>, 3600,
                                Some([org_id |-> 1]))
              IN  /\ direct.exc = ""
                  /\ build_query_builder(direct.val[1], before.query,
                                         before.project_ids, before.environment,
                                         before.params).exc
                        = "UnsupportedQuerySubscription"

\* C26 witness: a Sessions subscription made by create with
\* percentage(users_crashed, users) built a query for the environment prod.
C26_Witness ==
    /\ Built
    /\ IsSessions(sub[1])
    /\ sub[1].aggregate = CrashFreeAggregate(str_users_crashed, str_users)
    /\ before.environment = Some([name |-> "prod"])
    /\ exc = ""
    /\ ret[1].builder = "SessionsQueryBuilder"

====
